---- MODULE Spec2Model ----
(***************************************************************************)
(* Campaign backend: the per-lead orchestration engine and the campaign    *)
(* sweep that drives it.                                                   *)
(*   backend/app/orchestrator/{state,nodes,a2a_nodes,graph}.py             *)
(*   backend/app/tasks/campaign_tasks.py, backend/app/api/campaigns.py     *)
(* Spec: one run of process_campaign_lead_with_graph, step by step: load,  *)
(* initialise the state, build one of the three graphs, execute it         *)
(* superstep by superstep with the reducers of CampaignLeadState, write    *)
(* the result back, or take the failure handler.                           *)
(* RouterSpec: route_a2a_workflow applied to arbitrary states.             *)
(* ValidateSpec: validate_lead_node applied to every lead, policy, clock.  *)
(* ClassifySpec: the label classification of the dynamic graph builder.    *)
(* SweepSpec: start / pause / resume requests interleaved with the sweep   *)
(* jobs (process_campaign_task) that RQ workers execute.                   *)
(***************************************************************************)
EXTENDS Integers, Sequences, FiniteSets, TLC

VARIABLES
    campaign,      \* the persisted Campaign row (configuration and stats)
    leadRow,       \* the persisted Lead row
    settings,      \* app.config.settings: the working-hours policy
    requested,     \* the campaign_lead_id run() was called with (NULL before)
    cl,            \* the persisted CampaignLead row
    logRows,       \* persisted ProcessingLog rows, in insertion order
    msgRows,       \* persisted ConversationMessage rows, in insertion order
    pc,            \* position inside process_campaign_lead_with_graph
    topology,      \* which graph the coordinator built: none/a2a/dynamic/static
    graph,         \* the StateGraph under construction / compiled
    st,            \* the graph's channel values: the CampaignLeadState
    tasks,         \* nodes scheduled for the current superstep
    ran,           \* nodes of the current superstep that already executed
    step,          \* supersteps completed by graph.invoke
    executed,      \* every node invocation of the run, in order
    calls,         \* how often each external capability was invoked
    exc,           \* message of the exception being handled ("" = none)
    faulted,       \* a database fault already hit this run
    statsUpdates,  \* how often Campaign.update_stats ran
    result,        \* the value run() returned
    routing,       \* RouterSpec: the state handed to the router and its calls
    campStatus,    \* SweepSpec: Campaign.status as committed
    leadStatus,    \* SweepSpec: CampaignLead.status of each lead, as committed
    jobs,          \* SweepSpec: sweep jobs enqueued and not yet picked up
    sweep,         \* SweepSpec: each worker's position in process_campaign_task
    requests,      \* SweepSpec: API requests accepted so far
    runStarts,     \* history: how often a run was started for each lead
    rerunTerminal, \* history: a run started on a lead already completed/failed
    pauseActive,   \* history: a pause was committed and no resume followed
    startsSincePause, \* history: runs each worker began since that pause
    unstartedAtPause, \* history: leads each sweep had not started at that pause
    call           \* function specifications: the arguments of one call and its result

runVars == <<campaign, leadRow, settings, requested, cl, logRows, msgRows, pc,
             topology, graph, st, tasks, ran, step, executed, calls, exc,
             faulted, statsUpdates, result>>

routerVars == <<routing>>

sweepVars == <<campStatus, leadStatus, jobs, sweep, requests, runStarts,
               rerunTerminal, pauseActive, startsSincePause, unstartedAtPause>>

callVars == <<call>>

vars == <<runVars, routerVars, sweepVars, callVars>>

----------------------------------------------------------------------------
(* Bounds of the model *)

\* langgraph's recursion_limit (default 25) scaled down: graph.invoke raises
\* GraphRecursionError when this many supersteps ran and tasks remain.
RecursionLimit == 5

----------------------------------------------------------------------------
(* Python values *)

\* None in a nullable string column or variable
None == "None"

\* NULL in a nullable integer column (ids start at 1; None and 0 are both falsy)
NULL == 0

\* bool(x) for an Optional[int] id column
Truthy(x) == x # NULL

START == "__start__"
END == "__end__"

----------------------------------------------------------------------------
(* Labels of workflow nodes: sequences of characters, so that the substring *)
(* tests of create_dynamic_campaign_lead_graph are computed, not assumed.   *)

UpperChars == <<"A","B","C","D","E","F","G","H","I","J","K","L","M",
                "N","O","P","Q","R","S","T","U","V","W","X","Y","Z">>
LowerChars == <<"a","b","c","d","e","f","g","h","i","j","k","l","m",
                "n","o","p","q","r","s","t","u","v","w","x","y","z">>

\* str.lower() on one character
LowerChar(c) ==
    IF \E i \in 1..Len(UpperChars) : UpperChars[i] = c
    THEN LowerChars[CHOOSE i \in 1..Len(UpperChars) : UpperChars[i] = c]
    ELSE c

\* str.lower()
Lower(s) == [i \in 1..Len(s) |-> LowerChar(s[i])]

\* `sub in s` for strings
Contains(sub, s) ==
    \E i \in 0..(Len(s) - Len(sub)) :
        \A j \in 1..Len(sub) : s[i + j] = sub[j]

kwStart == <<"s","t","a","r","t">>
kwEnd == <<"e","n","d">>
kwValidate == <<"v","a","l","i","d","a","t","e">>
kwSms == <<"s","m","s">>
kwVoice == <<"v","o","i","c","e">>
kwEnrich == <<"e","n","r","i","c","h">>

LblStart == <<"S","t","a","r","t"," ","C","a","m","p","a","i","g","n">>
LblEnd == <<"E","n","d">>
LblValidate == <<"V","a","l","i","d","a","t","e"," ","L","e","a","d">>
LblSms == <<"S","M","S"," ","A","g","e","n","t">>
LblSendSms == <<"S","e","n","d"," ","S","M","S">>
LblSmsFollowup == <<"S","M","S"," ","F","o","l","l","o","w","u","p">>
LblVoice == <<"V","o","i","c","e"," ","C","a","l","l">>
LblEnrich == <<"E","n","r","i","c","h"," ","D","a","t","a">>
LblDelay == <<"D","e","l","a","y">>

----------------------------------------------------------------------------
(* Workflow descriptions a campaign can carry in workflow_config *)

WfNode(id, label, type) == [id |-> id, label |-> label, type |-> type]
WfEdge(source, target) == [source |-> source, target |-> target]
WfDict(nodes, edges) == [keys |-> {"nodes", "edges"}, nodes |-> nodes, edges |-> edges]

nStart == WfNode("start", LblStart, "input")
nEnd == WfNode("end", LblEnd, "output")
nValidate == WfNode("validate-1", LblValidate, "")
nSms == WfNode("sms-1", LblSms, "")
nSendSms == WfNode("sms-1", LblSendSms, "")
nSms2 == WfNode("sms-2", LblSmsFollowup, "")
nVoice == WfNode("voice-1", LblVoice, "")
nEnrich == WfNode("enrich-1", LblEnrich, "")
nDelay == WfNode("delay-1", LblDelay, "")

Workflows == <<
    \* 1: {} (an empty JSON object)
    [keys |-> {}, nodes |-> <<>>, edges |-> <<>>],
    \* 2: {"nodes": [], "edges": []}
    WfDict(<<>>, <<>>),
    \* 3: scripts/test_custom_voice_workflow.py: Start -> Validate -> Voice -> End
    WfDict(<<nStart, nValidate, nVoice, nEnd>>,
           <<WfEdge("start", "validate-1"), WfEdge("validate-1", "voice-1"),
             WfEdge("voice-1", "end")>>),
    \* 4: Start -> Validate -> SMS -> End
    WfDict(<<nStart, nValidate, nSms, nEnd>>,
           <<WfEdge("start", "validate-1"), WfEdge("validate-1", "sms-1"),
             WfEdge("sms-1", "end")>>),
    \* 5: Start -> Validate -> SMS -> Voice -> End
    WfDict(<<nStart, nValidate, nSms, nVoice, nEnd>>,
           <<WfEdge("start", "validate-1"), WfEdge("validate-1", "sms-1"),
             WfEdge("sms-1", "voice-1"), WfEdge("voice-1", "end")>>),
    \* 6: Start -> SMS -> Voice -> End (no validate node)
    WfDict(<<nStart, nSms, nVoice, nEnd>>,
           <<WfEdge("start", "sms-1"), WfEdge("sms-1", "voice-1"),
             WfEdge("voice-1", "end")>>),
    \* 7: Start -> Validate -> Delay -> End (unrecognized label)
    WfDict(<<nStart, nValidate, nDelay, nEnd>>,
           <<WfEdge("start", "validate-1"), WfEdge("validate-1", "delay-1"),
             WfEdge("delay-1", "end")>>),
    \* 8: Start -> Validate -> "Send SMS" -> End
    WfDict(<<nStart, nValidate, nSendSms, nEnd>>,
           <<WfEdge("start", "validate-1"), WfEdge("validate-1", "sms-1"),
             WfEdge("sms-1", "end")>>),
    \* 9: Start -> Validate -> "Send SMS" (no End node)
    WfDict(<<nStart, nValidate, nSendSms>>,
           <<WfEdge("start", "validate-1"), WfEdge("validate-1", "sms-1")>>),
    \* 10: Start -> Validate -> SMS -> SMS Followup -> End (two nodes, one name)
    WfDict(<<nStart, nValidate, nSms, nSms2, nEnd>>,
           <<WfEdge("start", "validate-1"), WfEdge("validate-1", "sms-1"),
             WfEdge("sms-1", "sms-2"), WfEdge("sms-2", "end")>>),
    \* 11: Start -> Validate -> SMS -> Validate (a cycle), End not wired
    WfDict(<<nStart, nValidate, nSms, nEnd>>,
           <<WfEdge("start", "validate-1"), WfEdge("validate-1", "sms-1"),
             WfEdge("sms-1", "validate-1")>>),
    \* 12: Start -> Validate -> End -> SMS (finalize has an outgoing edge)
    WfDict(<<nStart, nValidate, nSms, nEnd>>,
           <<WfEdge("start", "validate-1"), WfEdge("validate-1", "end"),
             WfEdge("end", "sms-1")>>),
    \* 13: Start -> Validate -> Enrich -> {SMS, Voice} -> End (fan-out)
    WfDict(<<nStart, nValidate, nEnrich, nSms, nVoice, nEnd>>,
           <<WfEdge("start", "validate-1"), WfEdge("validate-1", "enrich-1"),
             WfEdge("enrich-1", "sms-1"), WfEdge("enrich-1", "voice-1"),
             WfEdge("sms-1", "end"), WfEdge("voice-1", "end")>>),
    \* 14: Start -> Validate -> SMS (no End node)
    WfDict(<<nStart, nValidate, nSms>>,
           <<WfEdge("start", "validate-1"), WfEdge("validate-1", "sms-1")>>),
    \* 15: SMS -> End (no start edge, no validate node)
    WfDict(<<nSms, nEnd>>, <<WfEdge("sms-1", "end")>>),
    \* 16: Start -> Validate -> {SMS, Voice} -> End (validate has two edges)
    WfDict(<<nStart, nValidate, nSms, nVoice, nEnd>>,
           <<WfEdge("start", "validate-1"), WfEdge("validate-1", "sms-1"),
             WfEdge("validate-1", "voice-1"), WfEdge("sms-1", "end"),
             WfEdge("voice-1", "end")>>),
    \* 17: Start -> Validate -> Enrich -> SMS -> End
    WfDict(<<nStart, nValidate, nEnrich, nSms, nEnd>>,
           <<WfEdge("start", "validate-1"), WfEdge("validate-1", "enrich-1"),
             WfEdge("enrich-1", "sms-1"), WfEdge("sms-1", "end")>>),
    \* 18: Start -> SMS -> Validate -> End (delivery before validation)
    WfDict(<<nStart, nSms, nValidate, nEnd>>,
           <<WfEdge("start", "sms-1"), WfEdge("sms-1", "validate-1"),
             WfEdge("validate-1", "end")>>),
    \* 19: Start -> Enrich -> SMS -> Enrich (a cycle without validate)
    WfDict(<<nStart, nEnrich, nSms, nEnd>>,
           <<WfEdge("start", "enrich-1"), WfEdge("enrich-1", "sms-1"),
             WfEdge("sms-1", "enrich-1")>>)
>>

WorkflowConfigs == {NULL} \cup (1..Len(Workflows))

\* `if campaign.workflow_config:` -- None and {} are falsy
WfTruthy(w) == w # NULL /\ Workflows[w].keys # {}

\* workflow_config.get('nodes', []) / .get('edges', [])
WfNodes(w) == IF "nodes" \in Workflows[w].keys THEN Workflows[w].nodes ELSE <<>>
WfEdges(w) == IF "edges" \in Workflows[w].keys THEN Workflows[w].edges ELSE <<>>

----------------------------------------------------------------------------
(* langgraph.graph.StateGraph as the builders use it.  A builder call that  *)
(* raises leaves its message in .error; later calls are then never reached. *)

EmptyGraph == [nodes |-> {}, edges |-> {}, branches |-> {}, error |-> ""]

\* workflow.add_node(name, fn): a second node of the same name raises
AddNode(g, n) ==
    IF g.error # "" THEN g
    ELSE IF n \in g.nodes
         THEN [g EXCEPT !.error = "Node '" \o n \o "' already present."]
         ELSE [g EXCEPT !.nodes = @ \cup {n}]

\* workflow.add_edge(a, b): edges are a set, unknown ends are found by compile
AddEdge(g, a, b) ==
    IF g.error # "" THEN g
    ELSE [g EXCEPT !.edges = @ \cup {<<a, b>>}]

\* workflow.set_entry_point(n)
SetEntryPoint(g, n) == AddEdge(g, START, n)

\* workflow.add_conditional_edges(source, path, path_map): `ends` is the
\* path_map as a set of <<label, node>>; a second branch of the same name at
\* the same source raises (every lambda of the dynamic builder has one name).
AddConditionalEdges(g, source, router, target, ends) ==
    IF g.error # "" THEN g
    ELSE IF \E b \in g.branches : b.source = source /\ b.router = router
         THEN [g EXCEPT !.error = "Branch with name '" \o router
                                   \o "' already exists for node '" \o source \o "'"]
         ELSE [g EXCEPT !.branches = @ \cup
                  {[source |-> source, router |-> router, target |-> target,
                    ends |-> ends]}]

\* workflow.compile(): validates that every edge starts and ends at a node
CompileError(g) ==
    LET allSources == {e[1] : e \in g.edges} \cup {b.source : b \in g.branches}
        badSources == {x \in allSources : x \notin g.nodes /\ x # START}
        branchEnds == UNION {{p[2] : p \in b.ends} : b \in g.branches}
        badBranch == {x \in branchEnds : x \notin g.nodes /\ x # END}
        allTargets == {e[2] : e \in g.edges} \cup branchEnds
        badTargets == {x \in allTargets : x \notin g.nodes /\ x # END}
    IN  IF badSources # {}
        THEN "Found edge starting at unknown node '"
                 \o (CHOOSE x \in badSources : TRUE) \o "'"
        ELSE IF START \notin allSources
        THEN "Graph must have an entrypoint"
        ELSE IF badBranch # {}
        THEN "Branch found unknown target '"
                 \o (CHOOSE x \in badBranch : TRUE) \o "'"
        ELSE IF badTargets # {}
        THEN "Found edge ending at unknown node '"
                 \o (CHOOSE x \in badTargets : TRUE) \o "'"
        ELSE ""

Compile(g) ==
    IF g.error # "" THEN g ELSE [g EXCEPT !.error = CompileError(g)]

----------------------------------------------------------------------------
(* The three graph builders of graph.py *)

create_campaign_lead_graph ==
    LET g1 == AddNode(AddNode(AddNode(AddNode(EmptyGraph,
                  "validate"), "sms_agent"), "voice_agent"), "finalize")
        g2 == SetEntryPoint(g1, "validate")
        g3 == AddConditionalEdges(g2, "validate", "route_after_validation", "",
                  {<<"sms_only", "sms_agent">>, <<"voice_only", "voice_agent">>,
                   <<"sms_first", "sms_agent">>, <<"finalize", "finalize">>})
        g4 == AddConditionalEdges(g3, "sms_agent", "route_after_sms", "",
                  {<<"voice", "voice_agent">>, <<"finalize", "finalize">>})
        g5 == AddEdge(g4, "voice_agent", "finalize")
        g6 == AddEdge(g5, "finalize", END)
    IN  Compile(g6)

create_a2a_campaign_lead_graph ==
    LET g1 == AddNode(AddNode(AddNode(AddNode(AddNode(EmptyGraph,
                  "validate"), "creative_agent"), "deterministic_agent"),
                  "handoff"), "finalize")
        g2 == SetEntryPoint(g1, "validate")
        g3 == AddConditionalEdges(g2, "validate", "route_a2a_workflow", "",
                  {<<"creative", "creative_agent">>, <<"finalize", "finalize">>})
        g4 == AddEdge(g3, "creative_agent", "handoff")
        g5 == AddConditionalEdges(g4, "handoff", "route_a2a_workflow", "",
                  {<<"deterministic", "deterministic_agent">>,
                   <<"finalize", "finalize">>})
        g6 == AddEdge(g5, "deterministic_agent", "finalize")
        g7 == AddEdge(g6, "finalize", END)
    IN  Compile(g7)

\* the if/elif chain over one node of nodes_config; "" = start marker
\* (skipped), "unknown" = warning only
ClassifyNode(node) ==
    LET label == Lower(node.label)
    IN  IF Contains(kwStart, label) \/ node.type = "input" THEN ""
        ELSE IF Contains(kwEnd, label) \/ node.type = "output" THEN "finalize"
        ELSE IF Contains(kwValidate, label) THEN "validate"
        ELSE IF Contains(kwSms, label) THEN "sms_agent"
        ELSE IF Contains(kwVoice, label) THEN "voice_agent"
        ELSE IF Contains(kwEnrich, label) THEN "enrichment"
        ELSE "unknown"

\* the `for node in nodes_config` loop: acc = [g, node_mapping]
RECURSIVE MapNodes(_, _, _)
MapNodes(acc, nodes, i) ==
    IF i > Len(nodes) THEN acc
    ELSE LET name == ClassifyNode(nodes[i])
         IN  IF name \in {"", "unknown"} THEN MapNodes(acc, nodes, i + 1)
             ELSE IF acc.g.error # "" THEN acc
             ELSE MapNodes([g |-> AddNode(acc.g, name),
                            node_mapping |-> (nodes[i].id :> name) @@ acc.node_mapping],
                           nodes, i + 1)

\* next((n for n in nodes_config if n['id'] == source_id), None) is a start node
IsStartSource(nodes, source_id) ==
    /\ \E i \in 1..Len(nodes) : nodes[i].id = source_id
    /\ LET first == CHOOSE i \in 1..Len(nodes) :
                        /\ nodes[i].id = source_id
                        /\ \A j \in 1..(i - 1) : nodes[j].id # source_id
       IN  nodes[first].type = "input" \/ Contains(kwStart, Lower(nodes[first].label))

\* the `for edge in edges_config` loop: acc = [g, entry_point]
RECURSIVE WireEdges(_, _, _, _, _)
WireEdges(acc, node_mapping, nodes, edges, i) ==
    IF i > Len(edges) \/ acc.g.error # "" THEN acc
    ELSE LET source_id == edges[i].source
             target_id == edges[i].target
         IN  IF IsStartSource(nodes, source_id)
             THEN WireEdges(
                     IF target_id \in DOMAIN node_mapping
                     THEN [acc EXCEPT !.entry_point = node_mapping[target_id]]
                     ELSE acc,
                     node_mapping, nodes, edges, i + 1)
             ELSE IF source_id \in DOMAIN node_mapping /\ target_id \in DOMAIN node_mapping
             THEN LET source_name == node_mapping[source_id]
                      target_name == node_mapping[target_id]
                  IN  WireEdges(
                         [acc EXCEPT !.g =
                            IF source_name = "validate"
                            THEN AddConditionalEdges(@, "validate", "lambda", target_name,
                                     {<<target_name, target_name>>,
                                      <<"finalize", "finalize">>})
                            ELSE AddEdge(@, source_name, target_name)],
                         node_mapping, nodes, edges, i + 1)
             ELSE WireEdges(acc, node_mapping, nodes, edges, i + 1)

create_dynamic_campaign_lead_graph(workflow_config) ==
    LET nodes_config == WfNodes(workflow_config)
        edges_config == WfEdges(workflow_config)
        mapped == MapNodes([g |-> EmptyGraph, node_mapping |-> <<>>], nodes_config, 1)
        wired == WireEdges([g |-> mapped.g, entry_point |-> None],
                           mapped.node_mapping, nodes_config, edges_config, 1)
        g1 == IF wired.entry_point # None
              THEN SetEntryPoint(wired.g, wired.entry_point)
              ELSE SetEntryPoint(wired.g, "validate")
        g2 == AddEdge(g1, "finalize", END)
    IN  Compile(g2)

----------------------------------------------------------------------------
(* Persisted entities and external capabilities *)

\* agents table: id -> row (graph.py reads system_prompt, model, tools)
Agents == [i \in {7, 8} |->
             IF i = 7
             THEN [system_prompt |-> "creative prompt", model |-> "gpt-4o",
                   tools |-> <<>>]
             ELSE [system_prompt |-> "deterministic prompt", model |-> "gpt-4o-mini",
                   tools |-> <<[name |-> "crm_update_lead"]>>]]

AgentTypes == {"sms", "voice", "both"}

\* Lead rows: name and phone are NOT NULL but may be empty; company is nullable
Leads == {
    [id |-> 11, name |-> "Jane", phone |-> "+15550001", email |-> None,
     company |-> "Acme", notes |-> None],
    [id |-> 12, name |-> "Bob", phone |-> "+15550002", email |-> "bob@x.io",
     company |-> None, notes |-> None],
    [id |-> 13, name |-> "Ann", phone |-> "", email |-> None,
     company |-> None, notes |-> None],
    [id |-> 14, name |-> "", phone |-> "", email |-> None,
     company |-> "Acme", notes |-> None] }

\* config.py: working-hours policy as the environment may set it
WORKING_HOURS_START == 9
WORKING_HOURS_END == 23
SettingsChoices == {
    [ENFORCE_WORKING_HOURS |-> FALSE, ALLOW_WEEKEND_SENDING |-> TRUE],
    [ENFORCE_WORKING_HOURS |-> TRUE, ALLOW_WEEKEND_SENDING |-> TRUE],
    [ENFORCE_WORKING_HOURS |-> TRUE, ALLOW_WEEKEND_SENDING |-> FALSE] }

\* datetime.now() as validate may observe it: hour, weekday (0 = Monday)
Clocks == {[hour |-> 10, weekday |-> 2], [hour |-> 8, weekday |-> 2],
           [hour |-> 10, weekday |-> 5], [hour |-> 23, weekday |-> 6]}

\* what OpenAIService.generate_* returns; raised = the node's try block raised
\* before the service was called (import or constructor failure)
GenResults == {
    [raised |-> FALSE, success |-> TRUE, message |-> "Hi Jane, ...", error |-> "",
     cost |-> 3],
    [raised |-> FALSE, success |-> TRUE, message |-> "", error |-> "", cost |-> 0],
    [raised |-> FALSE, success |-> FALSE, message |-> "", error |-> "rate limited",
     cost |-> 0],
    [raised |-> TRUE, success |-> FALSE, message |-> "", error |-> "No module named x",
     cost |-> 0] }

\* what SMSService.send_sms returns; raised = the import of the service raised
SendResults == {
    [raised |-> FALSE, success |-> TRUE, error |-> ""],
    [raised |-> FALSE, success |-> FALSE, error |-> "delivery failed"],
    [raised |-> TRUE, success |-> FALSE, error |-> "No module named y"] }

NoCalls == [generate |-> 0, send |-> 0, place_call |-> 0]

----------------------------------------------------------------------------
(* state.py and initialize_lead_state *)

\* `x or ''`
OrEmpty(x) == IF x = None THEN "" ELSE x

\* str(id) if id else ''
IdStr(x) == IF Truthy(x) THEN ToString(x) ELSE ""

initialize_lead_state(campaign_lead, c, lead) ==
    [ campaign_lead_id |-> ToString(campaign_lead.id),
      campaign_id |-> ToString(c.id),
      lead_id |-> ToString(lead.id),
      lead_data |-> [name |-> lead.name, phone |-> lead.phone,
                     email |-> OrEmpty(lead.email),
                     company |-> OrEmpty(lead.company),
                     notes |-> OrEmpty(lead.notes)],
      agent_type |-> c.agent_type,
      use_a2a |-> Truthy(c.creative_agent_id) /\ Truthy(c.deterministic_agent_id),
      creative_agent_id |-> IdStr(c.creative_agent_id),
      creative_agent_prompt |->
          IF Truthy(c.creative_agent_id)
          THEN Agents[c.creative_agent_id].system_prompt
          ELSE "You are a creative sales assistant focused on engaging conversation.",
      creative_agent_model |->
          IF Truthy(c.creative_agent_id) THEN Agents[c.creative_agent_id].model
          ELSE "gpt-4o",
      deterministic_agent_id |-> IdStr(c.deterministic_agent_id),
      deterministic_agent_prompt |->
          IF Truthy(c.deterministic_agent_id)
          THEN Agents[c.deterministic_agent_id].system_prompt
          ELSE "You are a deterministic assistant focused on executing tools and actions.",
      deterministic_agent_model |->
          IF Truthy(c.deterministic_agent_id) THEN Agents[c.deterministic_agent_id].model
          ELSE "gpt-4o",
      deterministic_agent_tools |->
          IF Truthy(c.deterministic_agent_id) THEN Agents[c.deterministic_agent_id].tools
          ELSE <<>>,
      sms_system_prompt |->
          IF Truthy(c.agent_id) THEN Agents[c.agent_id].system_prompt
          ELSE IF c.sms_system_prompt \notin {None, ""} THEN c.sms_system_prompt
          ELSE "You are a helpful sales assistant.",
      sms_temperature |-> [num |-> c.sms_temperature, den |-> 100],
      validation_passed |-> FALSE,
      validation_errors |-> <<>>,
      sms_sent |-> FALSE,
      sms_message |-> "",
      sms_error |-> "",
      sms_cost |-> 0,
      voice_call_made |-> FALSE,
      voice_call_id |-> "",
      voice_error |-> "",
      voice_cost |-> 0,
      enrichment_data |-> <<>>,
      enrichment_error |-> "",
      processing_logs |-> <<>>,
      conversation_history |-> <<>>,
      trace_id |-> "",
      status |-> "pending",
      error_message |-> "" ]

\* a processing_logs entry (timestamps are not modelled)
LogEntry(node, message, data) == [node |-> node, message |-> message, data |-> data]

\* a conversation_history entry
HistEntry(role, agent, content, node) ==
    [role |-> role, agent |-> agent, content |-> content, node |-> node]

\* '; '.join(parts)
RECURSIVE JoinFrom(_, _, _)
JoinFrom(parts, sep, i) ==
    IF i > Len(parts) THEN ""
    ELSE IF i = Len(parts) THEN parts[i]
    ELSE parts[i] \o sep \o JoinFrom(parts, sep, i + 1)
Join(parts, sep) == JoinFrom(parts, sep, 1)

----------------------------------------------------------------------------
(* nodes.py: each node takes the state and returns the whole state *)

WeekdayNames == <<"Mon", "Tue", "Wed", "Thu", "Fri", "Sat", "Sun">>

\* variant: the last permitted hour is WORKING_HOURS_END itself
ValidationErrors_InclusiveEnd(lead_data, cfg, clock) ==
    (IF lead_data.phone = "" THEN <<"Missing phone number">> ELSE <<>>)
    \o (IF lead_data.name = "" THEN <<"Missing name">> ELSE <<>>)
    \o (IF cfg.ENFORCE_WORKING_HOURS
        THEN (IF ~cfg.ALLOW_WEEKEND_SENDING /\ clock.weekday >= 5
              THEN <<"Weekend sending disabled (current day: "
                       \o WeekdayNames[clock.weekday + 1] \o ")">>
              ELSE <<>>)
             \o (IF ~(WORKING_HOURS_START <= clock.hour /\ clock.hour <= WORKING_HOURS_END)
                 THEN <<"Outside working hours (current: " \o ToString(clock.hour)
                          \o ":00, allowed: " \o ToString(WORKING_HOURS_START)
                          \o ":00-" \o ToString(WORKING_HOURS_END) \o ":00)">>
                 ELSE <<>>)
        ELSE <<>>)

\* the error list validate_lead_node builds
ValidationErrors(lead_data, cfg, clock) ==
    (IF lead_data.phone = "" THEN <<"Missing phone number">> ELSE <<>>)
    \o (IF lead_data.name = "" THEN <<"Missing name">> ELSE <<>>)
    \o (IF cfg.ENFORCE_WORKING_HOURS
        THEN (IF ~cfg.ALLOW_WEEKEND_SENDING /\ clock.weekday >= 5
              THEN <<"Weekend sending disabled (current day: "
                       \o WeekdayNames[clock.weekday + 1] \o ")">>
              ELSE <<>>)
             \o (IF ~(WORKING_HOURS_START <= clock.hour /\ clock.hour < WORKING_HOURS_END)
                 THEN <<"Outside working hours (current: " \o ToString(clock.hour)
                          \o ":00, allowed: " \o ToString(WORKING_HOURS_START)
                          \o ":00-" \o ToString(WORKING_HOURS_END) \o ":00)">>
                 ELSE <<>>)
        ELSE <<>>)

validate_lead_node(s, cfg, clock) ==
    LET errors == ValidationErrors(s.lead_data, cfg, clock)
        passed == Len(errors) = 0
    IN  [s EXCEPT
            !.validation_passed = passed,
            !.validation_errors = errors,
            !.processing_logs = Append(@, LogEntry("validate_lead",
                IF passed THEN "Validation passed" ELSE "Validation failed",
                [errors |-> errors]))]

sms_agent_node(s, gen, snd) ==
    IF gen.raised
    THEN [s EXCEPT
            !.sms_sent = FALSE, !.sms_error = gen.error, !.sms_cost = 0,
            !.processing_logs = Append(@, LogEntry("sms_agent",
                "SMS processing failed", [error |-> gen.error]))]
    ELSE IF ~gen.success
    THEN [s EXCEPT
            !.sms_message = "", !.sms_sent = FALSE, !.sms_error = gen.error,
            !.sms_cost = 0,
            !.processing_logs = Append(@, LogEntry("sms_agent",
                "SMS generation failed", [error |-> gen.error]))]
    ELSE LET s1 == [s EXCEPT
                      !.sms_message = gen.message, !.sms_cost = gen.cost,
                      !.conversation_history = @ \o
                          <<HistEntry("system", "", s.sms_system_prompt, "sms_agent"),
                            HistEntry("assistant", "", gen.message, "sms_agent")>>]
         IN  IF snd.raised
             THEN [s1 EXCEPT
                     !.sms_sent = FALSE, !.sms_error = snd.error, !.sms_cost = 0,
                     !.processing_logs = Append(@, LogEntry("sms_agent",
                         "SMS processing failed", [error |-> snd.error]))]
             ELSE [s1 EXCEPT
                     !.sms_sent = snd.success, !.sms_error = snd.error,
                     !.processing_logs = Append(@, LogEntry("sms_agent",
                         IF snd.success THEN "SMS sent" ELSE "SMS failed",
                         [sms_message |-> gen.message, error |-> snd.error]))]

\* capabilities sms_agent_node invokes for these outcomes
SmsAgentCalls(s, gen, snd) ==
    [generate |-> IF gen.raised THEN 0 ELSE 1,
     send |-> IF ~gen.raised /\ gen.success /\ ~snd.raised THEN 1 ELSE 0,
     place_call |-> 0]

\* variant: the mocked call id is also recorded as the run's trace id
voice_agent_node_TracesCall(s) ==
    [s EXCEPT
        !.voice_call_made = TRUE,
        !.voice_call_id = "mock_call_" \o s.lead_id,
        !.voice_error = "",
        !.voice_cost = 0,
        !.trace_id = "mock_call_" \o s.lead_id,
        !.processing_logs = Append(@, LogEntry("voice_agent",
            "Voice call initiated (mocked)",
            [call_id |-> "mock_call_" \o s.lead_id]))]

voice_agent_node(s) ==
    [s EXCEPT
        !.voice_call_made = TRUE,
        !.voice_call_id = "mock_call_" \o s.lead_id,
        !.voice_error = "",
        !.voice_cost = 0,
        !.processing_logs = Append(@, LogEntry("voice_agent",
            "Voice call initiated (mocked)",
            [call_id |-> "mock_call_" \o s.lead_id]))]

\* the mocked enrichment lookup
EnrichedInfo(lead_data) ==
    IF lead_data.company # ""
    THEN [industry |-> "Technology", size |-> "100-500",
          location |-> "San Francisco, CA"]
    ELSE <<>>

\* variant: enrichment also stamps the lead's notes
enrichment_node_StampsNotes(s) ==
    LET enriched_info == EnrichedInfo(s.lead_data)
    IN  [s EXCEPT
            !.enrichment_data = enriched_info,
            !.enrichment_error = "",
            !.lead_data = enriched_info @@ [s.lead_data EXCEPT !.notes = "enriched"],
            !.processing_logs = Append(@, LogEntry("enrichment_node",
                "Data enrichment successful", [data |-> enriched_info]))]

enrichment_node(s) ==
    LET enriched_info == EnrichedInfo(s.lead_data)
    IN  [s EXCEPT
            !.enrichment_data = enriched_info,
            !.enrichment_error = "",
            !.lead_data = enriched_info @@ s.lead_data,
            !.processing_logs = Append(@, LogEntry("enrichment_node",
                "Data enrichment successful", [data |-> enriched_info]))]

\* variant: finalize decides by the agent flags alone
FinalStatus_SkipsValidation(s) ==
    IF s.agent_type = "sms"
         THEN (IF s.sms_sent THEN "completed" ELSE "failed")
    ELSE IF s.agent_type = "voice"
         THEN (IF s.voice_call_made THEN "completed" ELSE "failed")
    ELSE IF s.agent_type = "both"
         THEN (IF s.sms_sent /\ s.voice_call_made THEN "completed" ELSE "failed")
    ELSE s.status

\* variant: the sms branch reports 'completed' without looking at sms_sent
FinalStatus_IgnoresSent(s) ==
    IF ~s.validation_passed THEN "failed"
    ELSE IF s.agent_type = "sms" THEN "completed"
    ELSE IF s.agent_type = "voice"
         THEN (IF s.voice_call_made THEN "completed" ELSE "failed")
    ELSE IF s.agent_type = "both"
         THEN (IF s.sms_sent /\ s.voice_call_made THEN "completed" ELSE "failed")
    ELSE s.status

\* status and error_message as finalize_node decides them
FinalStatus(s) ==
    IF ~s.validation_passed THEN "failed"
    ELSE IF s.agent_type = "sms"
         THEN (IF s.sms_sent THEN "completed" ELSE "failed")
    ELSE IF s.agent_type = "voice"
         THEN (IF s.voice_call_made THEN "completed" ELSE "failed")
    ELSE IF s.agent_type = "both"
         THEN (IF s.sms_sent /\ s.voice_call_made THEN "completed" ELSE "failed")
    ELSE s.status

\* variant: the sms branch leaves error_message as it was
FinalErrorMessage_KeepsSms(s) ==
    IF ~s.validation_passed THEN Join(s.validation_errors, "; ")
    ELSE IF s.agent_type = "voice"
         THEN (IF ~s.voice_call_made THEN s.voice_error ELSE s.error_message)
    ELSE IF s.agent_type = "both" /\ ~(s.sms_sent /\ s.voice_call_made)
         THEN Join((IF ~s.sms_sent THEN <<"SMS: " \o s.sms_error>> ELSE <<>>)
                   \o (IF ~s.voice_call_made THEN <<"Voice: " \o s.voice_error>>
                       ELSE <<>>), "; ")
    ELSE s.error_message

FinalErrorMessage(s) ==
    IF ~s.validation_passed THEN Join(s.validation_errors, "; ")
    ELSE IF s.agent_type = "sms"
         THEN (IF ~s.sms_sent THEN s.sms_error ELSE s.error_message)
    ELSE IF s.agent_type = "voice"
         THEN (IF ~s.voice_call_made THEN s.voice_error ELSE s.error_message)
    ELSE IF s.agent_type = "both" /\ ~(s.sms_sent /\ s.voice_call_made)
         THEN Join((IF ~s.sms_sent THEN <<"SMS: " \o s.sms_error>> ELSE <<>>)
                   \o (IF ~s.voice_call_made THEN <<"Voice: " \o s.voice_error>>
                       ELSE <<>>), "; ")
    ELSE s.error_message

finalize_node(s) ==
    [s EXCEPT
        !.status = FinalStatus(s),
        !.error_message = FinalErrorMessage(s),
        !.processing_logs = Append(@, LogEntry("finalize",
            "Processing " \o FinalStatus(s), [final_status |-> FinalStatus(s)]))]

\* variant: routes by agent_type alone
route_after_validation_Unchecked(s) ==
    IF s.agent_type = "sms" THEN "sms_only"
    ELSE IF s.agent_type = "voice" THEN "voice_only"
    ELSE "sms_first"

route_after_validation(s) ==
    IF ~s.validation_passed THEN "finalize"
    ELSE IF s.agent_type = "sms" THEN "sms_only"
    ELSE IF s.agent_type = "voice" THEN "voice_only"
    ELSE "sms_first"

\* variant: the call is placed only after a delivered SMS
route_after_sms_OnlyIfSent(s) ==
    IF s.agent_type = "both" /\ s.sms_sent THEN "voice" ELSE "finalize"

route_after_sms(s) ==
    IF s.agent_type = "both" THEN "voice" ELSE "finalize"

----------------------------------------------------------------------------
(* a2a_nodes.py *)

a2a_creative_agent_node(s, gen) ==
    IF ~s.use_a2a THEN s
    ELSE IF gen.raised
    THEN [s EXCEPT
            !.sms_error = gen.error,
            !.processing_logs = Append(@, LogEntry("a2a_creative_agent",
                "Creative agent processing failed", [error |-> gen.error]))]
    ELSE IF ~gen.success
    THEN [s EXCEPT
            !.sms_error = gen.error,
            !.processing_logs = Append(@, LogEntry("a2a_creative_agent",
                "Creative agent failed", [error |-> gen.error]))]
    ELSE [s EXCEPT
            !.sms_message = gen.message,
            !.sms_cost = gen.cost,
            !.conversation_history = Append(@,
                HistEntry("assistant", "creative", gen.message, "a2a_creative_agent")),
            !.processing_logs = Append(@, LogEntry("a2a_creative_agent",
                "Creative agent generated message", [message_preview |-> gen.message]))]

CreativeCalls(s, gen) ==
    [generate |-> IF s.use_a2a /\ ~gen.raised THEN 1 ELSE 0,
     send |-> 0, place_call |-> 0]

a2a_deterministic_agent_node(s, snd) ==
    IF ~s.use_a2a THEN s
    ELSE IF s.sms_message = "" THEN s
    ELSE IF snd.raised
    THEN [s EXCEPT
            !.sms_error = snd.error,
            !.processing_logs = Append(@, LogEntry("a2a_deterministic_agent",
                "Deterministic agent processing failed", [error |-> snd.error]))]
    ELSE [s EXCEPT
            !.sms_sent = snd.success,
            !.sms_error = IF ~snd.success THEN snd.error ELSE "",
            !.conversation_history = Append(@,
                HistEntry("tool", "deterministic",
                          "SMS sent to " \o s.lead_data.phone, "a2a_deterministic_agent")),
            !.processing_logs = Append(@, LogEntry("a2a_deterministic_agent",
                IF snd.success THEN "SMS sent" ELSE "SMS failed",
                [tool |-> "send_sms", success |-> snd.success]))]

DeterministicCalls(s, snd) ==
    [generate |-> 0,
     send |-> IF s.use_a2a /\ s.sms_message # "" /\ ~snd.raised THEN 1 ELSE 0,
     place_call |-> 0]

\* variant: the handoff marks the message as delivered once it exists
a2a_handoff_node_MarksSent(s) ==
    [s EXCEPT
        !.sms_sent = s.sms_message # "",
        !.processing_logs = Append(@, LogEntry("a2a_handoff",
            "Agent handoff coordination",
            [creative_complete |-> s.sms_message # "",
             deterministic_complete |-> s.sms_sent]))]

a2a_handoff_node(s) ==
    [s EXCEPT
        !.processing_logs = Append(@, LogEntry("a2a_handoff",
            "Agent handoff coordination",
            [creative_complete |-> s.sms_message # "",
             deterministic_complete |-> s.sms_sent]))]

\* variant: a voice-only campaign skips the creative agent
route_a2a_workflow_ByAgentType(s) ==
    IF ~s.validation_passed THEN "finalize"
    ELSE IF s.sms_message = "" /\ s.agent_type = "voice" THEN "finalize"
    ELSE IF s.sms_message = "" THEN "creative"
    ELSE IF ~s.sms_sent THEN "deterministic"
    ELSE "finalize"

route_a2a_workflow(s) ==
    IF ~s.validation_passed THEN "finalize"
    ELSE IF s.sms_message = "" THEN "creative"
    ELSE IF s.sms_message # "" /\ ~s.sms_sent THEN "deterministic"
    ELSE "finalize"

----------------------------------------------------------------------------
(* Execution of a compiled graph (graph.invoke): supersteps over channels   *)

\* The reducers of CampaignLeadState applied to one node's returned state.
\* The node received the channels' own list objects: its .append calls have
\* already changed the two lists the channels hold (`held`), and the dict it
\* returns carries every key, so operator.add concatenates the held list
\* with the returned one.  All other keys take the returned value.
InPlace(chan, r) ==
    [chan EXCEPT !.processing_logs = r.processing_logs,
                 !.conversation_history = r.conversation_history]

\* variant: the two histories keep only what the node added
ApplyWrites_OnlyNew(chan, r) ==
    [r EXCEPT
        !.validation_errors = chan.validation_errors \o r.validation_errors,
        !.processing_logs = SubSeq(r.processing_logs, Len(chan.processing_logs) + 1,
                                   Len(r.processing_logs)),
        !.conversation_history = SubSeq(r.conversation_history,
                                        Len(chan.conversation_history) + 1,
                                        Len(r.conversation_history))]

ApplyWrites(chan, r) ==
    LET held == InPlace(chan, r)
    IN  [r EXCEPT
            !.validation_errors = held.validation_errors \o r.validation_errors,
            !.processing_logs = held.processing_logs \o r.processing_logs,
            !.conversation_history = held.conversation_history \o r.conversation_history]

\* the label a branch's path function returns
BranchLabel(b, s) ==
    IF b.router = "route_after_validation" THEN route_after_validation(s)
    ELSE IF b.router = "route_after_sms" THEN route_after_sms(s)
    ELSE IF b.router = "route_a2a_workflow" THEN route_a2a_workflow(s)
    ELSE (IF s.validation_passed THEN b.target ELSE "finalize")

\* labels returned at node n for which the path map has no entry (KeyError)
UnmappedLabels(g, n, s) ==
    {BranchLabel(b, s) : b \in {x \in g.branches : x.source = n}}
        \ UNION {{p[1] : p \in b.ends} : b \in {x \in g.branches : x.source = n}}

\* the nodes triggered for the next superstep after n ran and s was merged
NextTasks(g, n, s) ==
    ({e[2] : e \in {x \in g.edges : x[1] = n}}
     \cup UNION {{p[2] : p \in {q \in b.ends : q[1] = BranchLabel(b, s)}} :
                    b \in {x \in g.branches : x.source = n}})
    \ {END}

EntryTasks(g) == {e[2] : e \in {x \in g.edges : x[1] = START}} \ {END}

AddCalls(a, b) ==
    [generate |-> a.generate + b.generate, send |-> a.send + b.send,
     place_call |-> a.place_call + b.place_call]

\* One node invocation inside graph.invoke: n returned r and invoked the
\* capabilities c.  A superstep with one task merges r, routes and schedules
\* the next superstep; a superstep with several tasks cannot be merged (every
\* node writes every key) and raises once all of them ran.
ExecNode(n, r, c) ==
    /\ pc = "invoke"
    /\ n \in tasks \ ran
    /\ executed' = Append(executed, n)
    /\ calls' = AddCalls(calls, c)
    /\ IF tasks = {n}
       THEN LET merged == ApplyWrites(st, r)
                next == NextTasks(graph, n, merged)
            IN  IF UnmappedLabels(graph, n, merged) # {}
                THEN /\ exc' = "'" \o (CHOOSE l \in UnmappedLabels(graph, n, merged) : TRUE)
                                  \o "'"
                     /\ pc' = "except"
                     /\ UNCHANGED <<st, tasks, ran, step>>
                ELSE /\ st' = merged
                     /\ step' = step + 1
                     /\ ran' = {}
                     /\ IF next = {}
                        THEN /\ tasks' = {}
                             /\ pc' = "write_results"
                             /\ exc' = exc
                        ELSE IF step + 1 >= RecursionLimit
                        THEN /\ tasks' = next
                             /\ pc' = "except"
                             /\ exc' = "Recursion limit reached without hitting a stop condition"
                        ELSE /\ tasks' = next
                             /\ pc' = pc
                             /\ exc' = exc
       ELSE /\ ran' = ran \cup {n}
            /\ UNCHANGED <<st, tasks, step>>
            /\ IF ran \cup {n} = tasks
               THEN /\ pc' = "except"
                    /\ exc' = "Can receive only one value per step"
               ELSE /\ pc' = pc
                    /\ exc' = exc
    /\ UNCHANGED <<campaign, leadRow, settings, requested, cl, logRows, msgRows,
                   topology, graph, faulted, statsUpdates, result>>
    /\ UNCHANGED <<routerVars, sweepVars, callVars>>

Validate ==
    \E clock \in Clocks :
        ExecNode("validate", validate_lead_node(st, settings, clock), NoCalls)

SmsAgent ==
    \E gen \in GenResults, snd \in SendResults :
        ExecNode("sms_agent", sms_agent_node(st, gen, snd), SmsAgentCalls(st, gen, snd))

VoiceAgent ==
    ExecNode("voice_agent", voice_agent_node(st),
             [generate |-> 0, send |-> 0, place_call |-> 1])

Enrichment == ExecNode("enrichment", enrichment_node(st), NoCalls)

Finalize == ExecNode("finalize", finalize_node(st), NoCalls)

CreativeAgent ==
    \E gen \in GenResults :
        ExecNode("creative_agent", a2a_creative_agent_node(st, gen), CreativeCalls(st, gen))

DeterministicAgent ==
    \E snd \in SendResults :
        ExecNode("deterministic_agent", a2a_deterministic_agent_node(st, snd),
                 DeterministicCalls(st, snd))

Handoff == ExecNode("handoff", a2a_handoff_node(st), NoCalls)

----------------------------------------------------------------------------
(* models/campaign.py *)

CountStatus(rows, status) == Cardinality({i \in 1..Len(rows) : rows[i].status = status})

\* variant: a completed lead counts as one SMS sent
update_stats_SentFromStatus(rows) ==
    LET total == Len(rows)
        completed == CountStatus(rows, "completed")
    IN  [total_leads |-> total,
         pending |-> CountStatus(rows, "pending"),
         processing |-> CountStatus(rows, "processing"),
         completed |-> completed,
         failed |-> CountStatus(rows, "failed"),
         sms_sent |-> completed,
         success_rate |-> IF total > 0 THEN (completed * 100) \div total ELSE 0]

\* Campaign.update_stats over the campaign's CampaignLead rows
update_stats(rows) ==
    LET total == Len(rows)
        completed == CountStatus(rows, "completed")
    IN  [total_leads |-> total,
         pending |-> CountStatus(rows, "pending"),
         processing |-> CountStatus(rows, "processing"),
         completed |-> completed,
         failed |-> CountStatus(rows, "failed"),
         sms_sent |-> Cardinality({i \in 1..Len(rows) : rows[i].sms_sent}),
         success_rate |-> IF total > 0 THEN (completed * 100) \div total ELSE 0]

----------------------------------------------------------------------------
(* process_campaign_lead_with_graph *)

NoResult == [returned |-> FALSE]

\* lines 318-335: fetch the CampaignLead, mark it processing, build the state
Load ==
    /\ pc = "start"
    /\ \E id \in {cl.id, cl.id + 1} :
        /\ requested' = id
        /\ IF id = cl.id
           THEN /\ cl' = [cl EXCEPT !.status = "processing"]
                /\ st' = initialize_lead_state(cl, campaign, leadRow)
                /\ pc' = "build"
                /\ exc' = exc
           ELSE /\ exc' = "CampaignLead " \o ToString(id) \o " not found"
                /\ pc' = "except"
                /\ UNCHANGED <<cl, st>>
    /\ UNCHANGED <<campaign, leadRow, settings, logRows, msgRows, topology, graph,
                   tasks, ran, step, executed, calls, faulted, statsUpdates, result>>
    /\ UNCHANGED <<routerVars, sweepVars, callVars>>

\* variant: Dynamic > A2A > Static
SelectTopology_DynamicFirst(initial_state, c) ==
    IF WfTruthy(c.workflow_config) THEN "dynamic"
    ELSE IF initial_state.use_a2a THEN "a2a"
    ELSE "static"

\* lines 339-347: Priority: A2A > Dynamic > Static
SelectTopology(initial_state, c) ==
    IF initial_state.use_a2a THEN "a2a"
    ELSE IF WfTruthy(c.workflow_config) THEN "dynamic"
    ELSE "static"

BuiltGraph(kind, c) ==
    IF kind = "a2a" THEN create_a2a_campaign_lead_graph
    ELSE IF kind = "dynamic" THEN create_dynamic_campaign_lead_graph(c.workflow_config)
    ELSE create_campaign_lead_graph

\* lines 339-366: build the graph and enter graph.invoke
BuildGraph ==
    /\ pc = "build"
    /\ LET kind == SelectTopology(st, campaign)
           g == BuiltGraph(kind, campaign)
       IN  /\ topology' = kind
           /\ graph' = g
           /\ IF g.error # ""
              THEN /\ exc' = g.error
                   /\ pc' = "except"
                   /\ tasks' = tasks
              ELSE /\ exc' = exc
                   /\ pc' = "invoke"
                   /\ tasks' = EntryTasks(g)
    /\ UNCHANGED <<campaign, leadRow, settings, requested, cl, logRows, msgRows, st,
                   ran, step, executed, calls, faulted, statsUpdates, result>>
    /\ UNCHANGED <<routerVars, sweepVars, callVars>>

\* lines 369-376
WriteResults ==
    /\ pc = "write_results"
    /\ cl' = [cl EXCEPT !.status = st.status,
                        !.sms_sent = st.sms_sent,
                        !.sms_message = st.sms_message,
                        !.voice_call_made = st.voice_call_made,
                        !.error_message = st.error_message,
                        !.trace_id = st.trace_id,
                        !.processed_at = "now"]
    /\ pc' = "save_messages"
    /\ UNCHANGED <<campaign, leadRow, settings, requested, logRows, msgRows, topology,
                   graph, st, tasks, ran, step, executed, calls, exc, faulted,
                   statsUpdates, result>>
    /\ UNCHANGED <<routerVars, sweepVars, callVars>>

\* lines 378-388
SaveMessages ==
    /\ pc = "save_messages"
    /\ msgRows' = msgRows \o
          [i \in 1..Len(st.conversation_history) |->
              [campaign_lead_id |-> cl.id,
               role |-> st.conversation_history[i].role,
               content |-> st.conversation_history[i].content]]
    /\ pc' = "save_logs"
    /\ UNCHANGED <<campaign, leadRow, settings, requested, cl, logRows, topology,
                   graph, st, tasks, ran, step, executed, calls, exc, faulted,
                   statsUpdates, result>>
    /\ UNCHANGED <<routerVars, sweepVars, callVars>>

\* variant: every log row is written with level INFO
SaveLogs_AlwaysInfo ==
    /\ pc = "save_logs"
    /\ logRows' = logRows \o
          [i \in 1..Len(st.processing_logs) |->
              [campaign_lead_id |-> cl.id,
               level |-> "INFO",
               node_name |-> st.processing_logs[i].node,
               message |-> st.processing_logs[i].message]]
    /\ pc' = "update_stats"
    /\ UNCHANGED <<campaign, leadRow, settings, requested, cl, msgRows, topology,
                   graph, st, tasks, ran, step, executed, calls, exc, faulted,
                   statsUpdates, result>>
    /\ UNCHANGED <<routerVars, sweepVars, callVars>>

\* lines 390-400
SaveLogs ==
    /\ pc = "save_logs"
    /\ logRows' = logRows \o
          [i \in 1..Len(st.processing_logs) |->
              [campaign_lead_id |-> cl.id,
               level |-> IF st.status = "completed" THEN "INFO" ELSE "ERROR",
               node_name |-> st.processing_logs[i].node,
               message |-> st.processing_logs[i].message]]
    /\ pc' = "update_stats"
    /\ UNCHANGED <<campaign, leadRow, settings, requested, cl, msgRows, topology,
                   graph, st, tasks, ran, step, executed, calls, exc, faulted,
                   statsUpdates, result>>
    /\ UNCHANGED <<routerVars, sweepVars, callVars>>

\* lines 402-415
UpdateStatsAndReturn ==
    /\ pc = "update_stats"
    /\ campaign' = [campaign EXCEPT !.stats = update_stats(<<cl>>)]
    /\ statsUpdates' = statsUpdates + 1
    /\ result' = [returned |-> TRUE,
                  success |-> st.status = "completed",
                  status |-> st.status,
                  sms_sent |-> st.sms_sent,
                  voice_call_made |-> st.voice_call_made,
                  error_message |-> st.error_message]
    /\ pc' = "done"
    /\ UNCHANGED <<leadRow, settings, requested, cl, logRows, msgRows, topology,
                   graph, st, tasks, ran, step, executed, calls, exc, faulted>>
    /\ UNCHANGED <<routerVars, sweepVars, callVars>>

\* A commit of the write-back raises (a database error; what that commit was
\* to persist is lost, and at most one write-back commit fails per run).
DbFault ==
    /\ pc \in {"write_results", "save_messages", "save_logs", "update_stats"}
    /\ ~faulted
    /\ faulted' = TRUE
    /\ exc' = "database error"
    /\ pc' = "except"
    /\ UNCHANGED <<campaign, leadRow, settings, requested, cl, logRows, msgRows,
                   topology, graph, st, tasks, ran, step, executed, calls,
                   statsUpdates, result>>
    /\ UNCHANGED <<routerVars, sweepVars, callVars>>

\* variant: the handler marks the row it was asked about without looking it up
HandleException_AlwaysUpdates ==
    /\ pc = "except"
    /\ LET failedRow == [cl EXCEPT !.status = "failed",
                                    !.error_message = exc,
                                    !.processed_at = "now"]
       IN  /\ cl' = failedRow
           /\ campaign' = [campaign EXCEPT !.stats = update_stats(<<failedRow>>)]
           /\ statsUpdates' = statsUpdates + 1
    /\ result' = [returned |-> TRUE, success |-> FALSE, status |-> "failed",
                  error_message |-> exc]
    /\ pc' = "done"
    /\ UNCHANGED <<leadRow, settings, requested, logRows, msgRows, topology, graph,
                   st, tasks, ran, step, executed, calls, exc, faulted>>
    /\ UNCHANGED <<routerVars, sweepVars, callVars>>

\* lines 417-442: the except block.  The update of the row is itself inside a
\* try (lines 420-435): on a session whose commit failed and which nobody
\* rolled back, the query or the commit may raise again; that second error is
\* logged and swallowed, and the failure result is returned all the same.
HandleException ==
    /\ pc = "except"
    /\ \E updated \in (IF faulted THEN {TRUE, FALSE} ELSE {TRUE}) :
        IF requested = cl.id /\ updated
        THEN LET failedRow == [cl EXCEPT !.status = "failed",
                                         !.error_message = exc,
                                         !.processed_at = "now"]
             IN  /\ cl' = failedRow
                 /\ campaign' = [campaign EXCEPT !.stats = update_stats(<<failedRow>>)]
                 /\ statsUpdates' = statsUpdates + 1
        ELSE UNCHANGED <<cl, campaign, statsUpdates>>
    /\ result' = [returned |-> TRUE, success |-> FALSE, status |-> "failed",
                  error_message |-> exc]
    /\ pc' = "done"
    /\ UNCHANGED <<leadRow, settings, requested, logRows, msgRows, topology, graph,
                   st, tasks, ran, step, executed, calls, exc, faulted>>
    /\ UNCHANGED <<routerVars, sweepVars, callVars>>

----------------------------------------------------------------------------
(* The specification: one run for every configuration of campaign and lead  *)

\* the variables of RouterSpec and SweepSpec while a single run is modelled
RouterAtRest == routing = [input |-> <<>>, calls |-> <<>>]

\* no function call is under study
CallAtRest == call = <<>>

SweepAtRest ==
    /\ campStatus = "draft"
    /\ leadStatus = <<>>
    /\ jobs = 0
    /\ sweep = <<>>
    /\ requests = 0
    /\ runStarts = <<>>
    /\ rerunTerminal = FALSE
    /\ pauseActive = FALSE
    /\ startsSincePause = <<>>
    /\ unstartedAtPause = {}

Campaigns ==
    [id : {1}, agent_type : AgentTypes, agent_id : {NULL},
     creative_agent_id : {NULL, 7}, deterministic_agent_id : {NULL, 8},
     sms_system_prompt : {None}, sms_temperature : {70},
     workflow_config : WorkflowConfigs, stats : {<<>>}]

NewCampaignLead(lead) ==
    [id |-> 21, campaign_id |-> 1, lead_id |-> lead.id, status |-> "pending",
     sms_sent |-> FALSE, sms_message |-> None, voice_call_made |-> FALSE,
     error_message |-> None, trace_id |-> None, processed_at |-> None]

Init ==
    /\ campaign \in Campaigns
    /\ leadRow \in Leads
    /\ settings \in SettingsChoices
    /\ requested = NULL
    /\ cl = NewCampaignLead(leadRow)
    /\ logRows = <<>>
    /\ msgRows = <<>>
    /\ pc = "start"
    /\ topology = "none"
    /\ graph = EmptyGraph
    /\ st = initialize_lead_state(cl, campaign, leadRow)
    /\ tasks = {}
    /\ ran = {}
    /\ step = 0
    /\ executed = <<>>
    /\ calls = NoCalls
    /\ exc = ""
    /\ faulted = FALSE
    /\ statsUpdates = 0
    /\ result = NoResult
    /\ RouterAtRest
    /\ SweepAtRest
    /\ CallAtRest

Next ==
    \/ Load
    \/ BuildGraph
    \/ Validate
    \/ SmsAgent
    \/ VoiceAgent
    \/ Enrichment
    \/ Finalize
    \/ CreativeAgent
    \/ DeterministicAgent
    \/ Handoff
    \/ WriteResults
    \/ SaveMessages
    \/ SaveLogs
    \/ UpdateStatsAndReturn
    \/ DbFault
    \/ HandleException

Spec == Init /\ [][Next]_vars

----------------------------------------------------------------------------
(* RouterSpec: route_a2a_workflow as a function applied to a state          *)

\* how many router calls on one state are followed
MaxRouterCalls == 2

\* the run's variables while the router or the sweep is modelled on its own
RunAtRest ==
    /\ campaign = [id |-> 1, agent_type |-> "sms", agent_id |-> NULL,
                   creative_agent_id |-> 7, deterministic_agent_id |-> 8,
                   sms_system_prompt |-> None, sms_temperature |-> 70,
                   workflow_config |-> NULL, stats |-> <<>>]
    /\ leadRow = CHOOSE l \in Leads : l.id = 11
    /\ settings = [ENFORCE_WORKING_HOURS |-> FALSE, ALLOW_WEEKEND_SENDING |-> TRUE]
    /\ requested = NULL
    /\ cl = NewCampaignLead(leadRow)
    /\ logRows = <<>>
    /\ msgRows = <<>>
    /\ pc = "start"
    /\ topology = "none"
    /\ graph = EmptyGraph
    /\ st = initialize_lead_state(cl, campaign, leadRow)
    /\ tasks = {}
    /\ ran = {}
    /\ step = 0
    /\ executed = <<>>
    /\ calls = NoCalls
    /\ exc = ""
    /\ faulted = FALSE
    /\ statsUpdates = 0
    /\ result = NoResult

\* states the router may be handed: every combination of the fields a node
\* can have written before a routing point, over an A2A initial state
RouterInputs ==
    LET lead == CHOOSE l \in Leads : l.id = 11
        c == [id |-> 1, agent_type |-> "sms", agent_id |-> NULL,
              creative_agent_id |-> 7, deterministic_agent_id |-> 8,
              sms_system_prompt |-> None, sms_temperature |-> 70,
              workflow_config |-> NULL, stats |-> <<>>]
        base == initialize_lead_state(NewCampaignLead(lead), c, lead)
    IN  {[base EXCEPT !.validation_passed = vp, !.sms_message = m,
                      !.sms_sent = sent, !.agent_type = t, !.sms_error = e] :
            vp \in BOOLEAN, m \in {"", "Hi Jane, ..."}, sent \in BOOLEAN,
            t \in AgentTypes, e \in {"", "rate limited"}}

\* the two routing points of the A2A graph that use route_a2a_workflow
RoutePoints == {"validate", "handoff"}

\* the state as route_a2a_workflow leaves it: the function only reads
\* the dict it is handed and logs (a2a_nodes.py 197-213 assign nothing)
route_a2a_workflow_state(s) == s

\* the state the next router call is handed
RouterCurrent ==
    IF routing.calls = <<>> THEN routing.input
    ELSE routing.calls[Len(routing.calls)].after

RouterInit ==
    /\ routing \in [input : RouterInputs, calls : {<<>>}]
    /\ RunAtRest
    /\ SweepAtRest
    /\ CallAtRest

\* one call of the router at one of its routing points
RouteA2A ==
    /\ Len(routing.calls) < MaxRouterCalls
    /\ \E point \in RoutePoints :
        routing' = [routing EXCEPT !.calls =
                      Append(@, [point |-> point,
                                 label |-> route_a2a_workflow(RouterCurrent),
                                 after |-> route_a2a_workflow_state(RouterCurrent)])]
    /\ UNCHANGED <<runVars, sweepVars, callVars>>

RouterNext == RouteA2A

RouterSpec == RouterInit /\ [][RouterNext]_vars

----------------------------------------------------------------------------
(* ValidateSpec: validate_lead_node as a function of lead, policy and clock *)

\* a campaign of the static topology, for states built outside a run
SampleCampaign ==
    [id |-> 1, agent_type |-> "sms", agent_id |-> NULL,
     creative_agent_id |-> NULL, deterministic_agent_id |-> NULL,
     sms_system_prompt |-> None, sms_temperature |-> 70,
     workflow_config |-> NULL, stats |-> <<>>]

\* leads with every combination of empty and non-empty name and phone
ValidateLeads ==
    {[id |-> 11, name |-> n, phone |-> ph, email |-> None, company |-> None,
      notes |-> None] : n \in {"", "Jane"}, ph \in {"", "+15550001"}}

\* every working-hours policy the environment can configure
ValidatePolicies == [ENFORCE_WORKING_HOURS : BOOLEAN, ALLOW_WEEKEND_SENDING : BOOLEAN]

\* every hour and weekday datetime.now() can report (0 = Monday)
ValidateClocks == [hour : 0..23, weekday : 0..6]

ValidateInit ==
    /\ call \in [state : {initialize_lead_state(NewCampaignLead(l), SampleCampaign, l) :
                              l \in ValidateLeads},
                  cfg : ValidatePolicies, clock : ValidateClocks,
                  fn : {"validate_lead_node"}, done : {FALSE}, out : {<<>>}]
    /\ RunAtRest
    /\ RouterAtRest
    /\ SweepAtRest

\* validate_lead_node(state) under the policy and the clock of the call
ValidateCall ==
    /\ ~call.done
    /\ call' = [call EXCEPT !.done = TRUE,
                            !.out = validate_lead_node(call.state, call.cfg, call.clock)]
    /\ UNCHANGED <<runVars, routerVars, sweepVars>>

ValidateNext == ValidateCall

ValidateSpec == ValidateInit /\ [][ValidateNext]_vars

----------------------------------------------------------------------------
(* ClassifySpec: the classification of one node of a workflow description   *)

\* text a label may carry before and after its keyword
LabelPrefixes ==
    {<<>>, <<"S","e","n","d"," ">>, <<"M","y"," ">>, <<"N","e","w"," ">>,
     <<"R","e","s","t","a","r","t"," ">>}
LabelSuffixes ==
    {<<>>, <<" ","L","e","a","d">>, <<" ","C","a","l","l">>,
     <<" ","A","g","e","n","t">>, <<" ","S","t","e","p">>}
LabelWords ==
    {<<"V","a","l","i","d","a","t","e">>, <<"v","a","l","i","d","a","t","e">>,
     <<"S","M","S">>, <<"s","m","s">>,
     <<"V","o","i","c","e">>, <<"V","O","I","C","E">>,
     <<"E","n","r","i","c","h">>, <<"e","n","r","i","c","h">>}

\* node['data']['label'] of the nodes classified
ClassifyLabels == {p \o w \o x : p \in LabelPrefixes, w \in LabelWords, x \in LabelSuffixes}

\* node.get('type'): absent, a plain node, or one of the two marker types
NodeTypes == {"", "default", "input", "output"}

ClassifyInit ==
    /\ call \in [node : {WfNode("n-1", l, t) : l \in ClassifyLabels, t \in NodeTypes},
                  fn : {"classify"}, done : {FALSE}, out : {""}]
    /\ RunAtRest
    /\ RouterAtRest
    /\ SweepAtRest

\* one iteration of the loop over nodes_config
ClassifyCall ==
    /\ ~call.done
    /\ call' = [call EXCEPT !.done = TRUE, !.out = ClassifyNode(call.node)]
    /\ UNCHANGED <<runVars, routerVars, sweepVars>>

ClassifyNext == ClassifyCall

ClassifySpec == ClassifyInit /\ [][ClassifyNext]_vars

----------------------------------------------------------------------------
(* SweepSpec: the campaign sweep job, its workers and the API requests      *)

\* campaign leads of the swept campaign
NumSweepLeads == 2
\* worker processes listening on the 'campaigns' queue
NumWorkers == 2
\* accepted start / pause / resume requests that are followed
MaxRequests == 3

SweepLeadIds == 1..NumSweepLeads
Workers == 1..NumWorkers

\* CampaignLead.status values that a run has finished with
TerminalLeadStatuses == {"completed", "failed"}

\* what a finished run leaves in CampaignLead.status: the final state's
\* status, which is 'pending' when the graph ended without finalize
RunOutcomes == {"completed", "failed", "pending"}

IdleSweep == [pc |-> "idle", pending_leads |-> <<>>, idx |-> 1]

\* the ids with the given status, in id order (the query's result list)
RECURSIVE LeadsWithStatus(_, _, _)
LeadsWithStatus(status, from, wanted) ==
    IF from > NumSweepLeads THEN <<>>
    ELSE (IF status[from] = wanted THEN <<from>> ELSE <<>>)
         \o LeadsWithStatus(status, from + 1, wanted)

\* the lead a sweep in its loop is at
SweepLead(w) == sweep[w].pending_leads[sweep[w].idx]

SweepInit ==
    /\ campStatus = "draft"
    /\ leadStatus = [l \in SweepLeadIds |-> "pending"]
    /\ jobs = 0
    /\ sweep = [w \in Workers |-> IdleSweep]
    /\ requests = 0
    /\ runStarts = [l \in SweepLeadIds |-> 0]
    /\ rerunTerminal = FALSE
    /\ pauseActive = FALSE
    /\ startsSincePause = [w \in Workers |-> 0]
    /\ unstartedAtPause = {}
    /\ RunAtRest
    /\ RouterAtRest
    /\ CallAtRest

\* POST /campaigns/{id}/start
StartCampaign ==
    /\ requests < MaxRequests
    /\ campStatus \in {"draft", "pending"}
    /\ campStatus' = "pending"
    /\ jobs' = jobs + 1
    /\ requests' = requests + 1
    /\ UNCHANGED <<leadStatus, sweep, runStarts, rerunTerminal, pauseActive,
                   startsSincePause, unstartedAtPause>>
    /\ UNCHANGED <<runVars, routerVars, callVars>>

\* POST /campaigns/{id}/pause; also notes which leads no sweep has started
\* or is committed to start (a sweep past its check runs its lead)
PauseCampaign ==
    /\ requests < MaxRequests
    /\ campStatus = "processing"
    /\ campStatus' = "paused"
    /\ requests' = requests + 1
    /\ pauseActive' = TRUE
    /\ startsSincePause' = [w \in Workers |-> 0]
    /\ unstartedAtPause' =
          {l \in SweepLeadIds : leadStatus[l] = "pending"}
          \ {SweepLead(w) : w \in {x \in Workers : sweep[x].pc = "checked"}}
    /\ UNCHANGED <<leadStatus, jobs, sweep, runStarts, rerunTerminal>>
    /\ UNCHANGED <<runVars, routerVars, callVars>>

\* POST /campaigns/{id}/resume
ResumeCampaign ==
    /\ requests < MaxRequests
    /\ campStatus = "paused"
    /\ campStatus' = "processing"
    /\ jobs' = jobs + 1
    /\ requests' = requests + 1
    /\ pauseActive' = FALSE
    /\ unstartedAtPause' = {}
    /\ UNCHANGED <<leadStatus, sweep, runStarts, rerunTerminal, startsSincePause>>
    /\ UNCHANGED <<runVars, routerVars, callVars>>

\* a worker takes a job: process_campaign_task up to its first commit
SweepBegin(w) ==
    /\ sweep[w].pc = "idle"
    /\ jobs > 0
    /\ jobs' = jobs - 1
    /\ campStatus' = "processing"
    /\ sweep' = [sweep EXCEPT ![w] = [IdleSweep EXCEPT !.pc = "query"]]
    /\ startsSincePause' = [startsSincePause EXCEPT ![w] = 0]
    /\ UNCHANGED <<leadStatus, requests, runStarts, rerunTerminal, pauseActive,
                   unstartedAtPause>>
    /\ UNCHANGED <<runVars, routerVars, callVars>>

\* pending_leads = db.query(CampaignLead).filter(status == 'pending').all()
SweepQuery(w) ==
    /\ sweep[w].pc = "query"
    /\ sweep' = [sweep EXCEPT ![w].pc = "loop",
                              ![w].pending_leads = LeadsWithStatus(leadStatus, 1, "pending")]
    /\ UNCHANGED <<campStatus, leadStatus, jobs, requests, runStarts, rerunTerminal,
                   pauseActive, startsSincePause, unstartedAtPause>>
    /\ UNCHANGED <<runVars, routerVars, callVars>>

\* top of one loop iteration: refresh the campaign and return when paused
SweepCheck(w) ==
    /\ sweep[w].pc = "loop"
    /\ sweep[w].idx <= Len(sweep[w].pending_leads)
    /\ sweep' = [sweep EXCEPT ![w] =
                    IF campStatus = "paused" THEN IdleSweep
                    ELSE [@ EXCEPT !.pc = "checked"]]
    /\ UNCHANGED <<campStatus, leadStatus, jobs, requests, runStarts, rerunTerminal,
                   pauseActive, startsSincePause, unstartedAtPause>>
    /\ UNCHANGED <<runVars, routerVars, callVars>>

\* the run of the lead begins: fetched by id, set to 'processing', committed
RunLoad(w) ==
    /\ sweep[w].pc = "checked"
    /\ LET l == SweepLead(w)
       IN  /\ leadStatus' = [leadStatus EXCEPT ![l] = "processing"]
           /\ runStarts' = [runStarts EXCEPT ![l] = @ + 1]
           /\ rerunTerminal' = (rerunTerminal \/ leadStatus[l] \in TerminalLeadStatuses)
    /\ startsSincePause' = [startsSincePause EXCEPT ![w] = @ + 1]
    /\ sweep' = [sweep EXCEPT ![w].pc = "running"]
    /\ UNCHANGED <<campStatus, jobs, requests, pauseActive, unstartedAtPause>>
    /\ UNCHANGED <<runVars, routerVars, callVars>>

\* the run of the lead ends: its final status is written and committed
RunFinish(w) ==
    /\ sweep[w].pc = "running"
    /\ \E outcome \in RunOutcomes :
        leadStatus' = [leadStatus EXCEPT ![SweepLead(w)] = outcome]
    /\ sweep' = [sweep EXCEPT ![w].pc = "loop", ![w].idx = @ + 1]
    /\ UNCHANGED <<campStatus, jobs, requests, runStarts, rerunTerminal, pauseActive,
                   startsSincePause, unstartedAtPause>>
    /\ UNCHANGED <<runVars, routerVars, callVars>>

\* the loop is exhausted: the campaign is marked completed
SweepComplete(w) ==
    /\ sweep[w].pc = "loop"
    /\ sweep[w].idx > Len(sweep[w].pending_leads)
    /\ campStatus' = "completed"
    /\ sweep' = [sweep EXCEPT ![w] = IdleSweep]
    /\ UNCHANGED <<leadStatus, jobs, requests, runStarts, rerunTerminal, pauseActive,
                   startsSincePause, unstartedAtPause>>
    /\ UNCHANGED <<runVars, routerVars, callVars>>

SweepNext ==
    \/ StartCampaign
    \/ PauseCampaign
    \/ ResumeCampaign
    \/ \E w \in Workers : SweepBegin(w)
    \/ \E w \in Workers : SweepQuery(w)
    \/ \E w \in Workers : SweepCheck(w)
    \/ \E w \in Workers : RunLoad(w)
    \/ \E w \in Workers : RunFinish(w)
    \/ \E w \in Workers : SweepComplete(w)

SweepSpec == SweepInit /\ [][SweepNext]_vars

----------------------------------------------------------------------------
(* Vocabulary of the properties *)

IsPrefix(a, b) == Len(a) <= Len(b) /\ \A i \in 1..Len(a) : a[i] = b[i]

\* graph.invoke returned normally: st is the run's final state
Finished ==
    /\ pc \in {"write_results", "save_messages", "save_logs", "update_stats",
               "done", "except"}
    /\ executed # <<>>
    /\ tasks = {}

\* run() returned for a CampaignLead that exists
Returned == pc = "done" /\ requested = cl.id

\* some execution of validate in this run reported errors (the reducer keeps them)
ValidationFailed == "validate" \in {executed[i] : i \in 1..Len(executed)}
                    /\ st.validation_errors # <<>>

\* the errors the last execution of validate produced
RECURSIVE LastValidateEntry(_, _)
LastValidateEntry(logs, i) ==
    IF logs[i].node = "validate_lead" THEN logs[i] ELSE LastValidateEntry(logs, i - 1)

HasValidateEntry(logs) == \E i \in 1..Len(logs) : logs[i].node = "validate_lead"

----------------------------------------------------------------------------
(* C1: in every run in which the validate node reports failure, the final   *)
(* status is 'failed' and the final error_message is the validation errors  *)
(* joined by '; '.  Stated for every run whose graph execution returned.    *)
C1_ValidationFailureFails ==
    (Finished /\ HasValidateEntry(st.processing_logs) /\ ~st.validation_passed)
    => /\ st.status = "failed"
       /\ st.error_message =
            Join(LastValidateEntry(st.processing_logs, Len(st.processing_logs)).data.errors,
                 "; ")

(* C2: with agent_type 'both', on whichever topology was selected, the       *)
(* final status is 'completed' iff sms_sent and voice_call_made are both     *)
(* true in the final state.                                                  *)
C2_BothCompletedIffBothFlags ==
    (Finished /\ st.agent_type = "both")
    => (st.status = "completed" <=> (st.sms_sent /\ st.voice_call_made))

(* C3: on the static graph with validation passed, agent_type 'sms' ends     *)
(* 'completed' iff sms_sent, and agent_type 'voice' ends 'completed' with    *)
(* the call made (the mocked place-call always succeeds).                    *)
C3_StaticSmsVoiceStatus ==
    (Finished /\ topology = "static" /\ st.validation_passed)
    => /\ st.agent_type = "sms" => (st.status = "completed" <=> st.sms_sent)
       /\ st.agent_type = "voice" =>
            (st.status = "completed" /\ st.voice_call_made /\ calls.place_call = 1)

C3_Witness ==
    /\ Returned /\ topology = "static" /\ st.validation_passed
    /\ st.agent_type = "sms" /\ st.status = "completed" /\ cl.status = "completed"

(* C4: whenever the engine merges a node's result, processing_logs and       *)
(* conversation_history keep their previous value as a prefix: no step of a  *)
(* run shortens either list or changes an earlier entry.                     *)
C4_AppendOnly ==
    [][/\ IsPrefix(st.processing_logs, st'.processing_logs)
       /\ IsPrefix(st.conversation_history, st'.conversation_history)]_vars

C4_Witness ==
    /\ Len(executed) >= 3
    /\ Len(st.processing_logs) > Len(executed)
    /\ Len(st.conversation_history) >= 2
    /\ pc = "done"

\* the 'node' key each node writes into its log entry
LogNodeOf(n) == IF n = "validate" THEN "validate_lead" ELSE n

(* C5: the merge adds only the entry the node appended, so the final log of  *)
(* a run on the static graph has exactly one entry per executed node, in     *)
(* execution order, none of them twice.                                      *)
C5_OneLogEntryPerNode ==
    (Finished /\ topology = "static")
    => /\ Len(st.processing_logs) = Len(executed)
       /\ \A i \in 1..Len(executed) :
            i <= Len(st.processing_logs)
            => st.processing_logs[i].node = LogNodeOf(executed[i])

(* C6: once run returns for an existing campaign lead, the persisted status  *)
(* is 'completed' or 'failed', never 'pending' or 'processing'.              *)
C6_TerminalStatusPersisted ==
    Returned => cl.status \in {"completed", "failed"}

(* C7: if a step after the load raised (graph construction, execution or     *)
(* write-back), then when run returns the persisted row is 'failed' with the *)
(* exception's message and a processed timestamp, the statistics were        *)
(* recomputed, and the result reports success=false and status 'failed'.     *)
C7_FailureIsPersisted ==
    (Returned /\ exc # "")
    => /\ cl.status = "failed"
       /\ cl.error_message = exc
       /\ cl.processed_at # None
       /\ statsUpdates >= 1
       /\ campaign.stats = update_stats(<<cl>>)
       /\ result = [returned |-> TRUE, success |-> FALSE, status |-> "failed",
                    error_message |-> exc]

\* both agent ids are set on the campaign
BothAgentIds ==
    campaign.creative_agent_id # NULL /\ campaign.deterministic_agent_id # NULL

(* C8: the graph built is the A2A graph iff both agent ids are set, else the *)
(* dynamic graph iff the campaign has a (non-empty) workflow description,    *)
(* else the static graph; with both ids set the workflow description is      *)
(* ignored, and use_a2a of the initial state is true exactly in that case.   *)
C8_TopologyPriority ==
    (topology # "none")
    => /\ topology = "a2a" <=> BothAgentIds
       /\ topology = "dynamic" <=> (~BothAgentIds /\ WfTruthy(campaign.workflow_config))
       /\ topology = "static" <=> (~BothAgentIds /\ ~WfTruthy(campaign.workflow_config))
       /\ st.use_a2a <=> BothAgentIds
       /\ BothAgentIds => graph = create_a2a_campaign_lead_graph
       /\ topology = "static" => graph = create_campaign_lead_graph

C8_Witness ==
    /\ topology = "a2a"
    /\ WfTruthy(campaign.workflow_config)
    /\ "creative_agent" \in {executed[i] : i \in 1..Len(executed)}

(* C9 as stated: in every run in which validation fails, no generation,      *)
(* delivery or call placement is invoked at any point, on any graph.         *)
C9_NoCapabilityWhenValidationFails ==
    ValidationFailed => calls = NoCalls

\* no edge leaves finalize except the one to termination
FinalizeIsTerminal == \A e \in graph.edges : e[1] = "finalize" => e[2] = END

\* validate was the first node to execute and it reported failure
FirstNodeValidateFailed ==
    /\ executed # <<>> /\ executed[1] = "validate"
    /\ st.processing_logs # <<>>
    /\ st.processing_logs[1].message = "Validation failed"

(* C9 amended: on the static and the A2A graph, and on a dynamic graph whose *)
(* entry point is validate and whose finalize node has no edge to another    *)
(* node, a run whose first node validate fails invokes no generation, no     *)
(* delivery and no call placement at any point.                              *)
C9_NoCapabilityAfterFailedEntryValidation ==
    (FirstNodeValidateFailed /\ FinalizeIsTerminal) => calls = NoCalls

C9_Witness ==
    /\ topology = "dynamic"
    /\ FirstNodeValidateFailed /\ FinalizeIsTerminal
    /\ "sms_agent" \in graph.nodes
    /\ executed = <<"validate", "finalize">>
    /\ Returned

\* indexes of the log entries sms_agent wrote for a failed generation
GenerationFailedEntries(logs) ==
    {i \in 1..Len(logs) : logs[i].node = "sms_agent"
                          /\ logs[i].message = "SMS generation failed"}

(* C10: on the static graph with agent_type 'sms' and validation passed, if  *)
(* generation returns failure with error e, delivery is not invoked,         *)
(* sms_message is empty, sms_sent is false and the run ends 'failed' with    *)
(* error_message e.                                                          *)
C10_GenerationFailure ==
    (/\ Finished /\ topology = "static" /\ st.agent_type = "sms"
     /\ st.validation_passed
     /\ GenerationFailedEntries(st.processing_logs) # {})
    => /\ calls.send = 0
       /\ st.sms_message = ""
       /\ ~st.sms_sent
       /\ st.status = "failed"
       /\ \A i \in GenerationFailedEntries(st.processing_logs) :
            st.error_message = st.processing_logs[i].data.error

C10_Witness ==
    /\ Returned /\ topology = "static" /\ st.agent_type = "sms"
    /\ st.validation_passed
    /\ GenerationFailedEntries(st.processing_logs) # {}
    /\ st.error_message = "rate limited"
    /\ cl.error_message = "rate limited"

----------------------------------------------------------------------------
\* the deterministic agent logged a delivery that returned failure
DeliveryFailedEntry(logs) ==
    \E i \in 1..Len(logs) : logs[i].node = "a2a_deterministic_agent"
                            /\ logs[i].message = "SMS failed"

\* msg is e, or e inside the combined message finalize_node builds for 'both'
MentionsError(msg, e, voice_error) ==
    \E pre \in {"", "SMS: "}, post \in {"", "; Voice: " \o voice_error} :
        msg = pre \o e \o post

(* C11: on the A2A graph, when the creative node produced a message and the  *)
(* deterministic node's delivery failed with error e, the run ends 'failed'  *)
(* with an error_message that contains e, whatever the agent_type.           *)
C11_A2ADeliveryFailureReported ==
    (Finished /\ topology = "a2a" /\ DeliveryFailedEntry(st.processing_logs))
    => /\ st.status = "failed"
       /\ st.sms_error # ""
       /\ MentionsError(st.error_message, st.sms_error, st.voice_error)

----------------------------------------------------------------------------
\* the nodes executed so far, as a set
ExecutedNodes == {executed[i] : i \in 1..Len(executed)}

\* the 'node' keys in a processing log
LoggedNodes(logs) == {logs[i].node : i \in 1..Len(logs)}

\* indexes of the entries the creative agent wrote for a generation failure
CreativeFailedEntries(logs) ==
    {i \in 1..Len(logs) : logs[i].node = "a2a_creative_agent"
                          /\ logs[i].message = "Creative agent failed"}

(* C12: on the A2A graph, when the creative agent fails to produce a message *)
(* the run still goes through handoff to finalize and ends 'failed' with the *)
(* creative error as error_message and a log holding the creative, handoff   *)
(* and finalize entries.  Stated for runs without a database fault.          *)
C12_CreativeFailureReachesFinalize ==
    (/\ Returned /\ ~faulted /\ topology = "a2a"
     /\ CreativeFailedEntries(st.processing_logs) # {})
    => /\ "handoff" \in ExecutedNodes
       /\ "finalize" \in ExecutedNodes
       /\ result.status = "failed"
       /\ \A i \in CreativeFailedEntries(st.processing_logs) :
            result.error_message = st.processing_logs[i].data.error
       /\ {"a2a_creative_agent", "a2a_handoff", "finalize"}
              \subseteq LoggedNodes(st.processing_logs)

----------------------------------------------------------------------------
\* some node of the workflow description has a label no keyword matches
HasUnknownLabel(w) ==
    \E i \in 1..Len(WfNodes(w)) : ClassifyNode(WfNodes(w)[i]) = "unknown"

(* C13: for a workflow description with an unrecognized label whose entry    *)
(* point resolves to validate, dynamic construction succeeds and every run   *)
(* of the graph executes finalize.  Stated for runs without a database fault.*)
C13_UnknownLabelStillFinalizes ==
    (/\ topology = "dynamic"
     /\ HasUnknownLabel(campaign.workflow_config)
     /\ <<START, "validate">> \in graph.edges)
    => /\ graph.error = ""
       /\ (Returned /\ ~faulted) => "finalize" \in ExecutedNodes

----------------------------------------------------------------------------
\* the three things route_a2a_workflow reads from the state
RouterKey(s) == <<s.validation_passed, s.sms_message # "", s.sms_sent>>

----------------------------------------------------------------------------
(* C15: under any interleaving of start, pause and resume requests with      *)
(* sweep jobs, each campaign lead is run at most once, and no run begins on  *)
(* a lead whose persisted status is 'completed' or 'failed'.                 *)
C15_EachLeadRunAtMostOnce ==
    /\ \A l \in SweepLeadIds : runStarts[l] <= 1
    /\ ~rerunTerminal

(* C16: once a pause is committed and no resume follows, each sweep begins   *)
(* at most one lead run, and every lead that no sweep had started or was     *)
(* committed to start keeps status 'pending'.                                *)
C16_PauseStopsSweep ==
    pauseActive =>
        /\ \A w \in Workers : startsSincePause[w] <= 1
        /\ \A l \in unstartedAtPause : leadStatus[l] = "pending"

----------------------------------------------------------------------------
\* the run was asked for an id that no CampaignLead row has
MissingLead == requested # NULL /\ requested # cl.id

(* C17: a run for an id with no persisted CampaignLead returns success       *)
(* false, status 'failed' and an error message naming the id; no step of     *)
(* such a run changes a persisted record or recomputes the statistics.       *)
C17_MissingLeadFails ==
    /\ []((pc = "done" /\ MissingLead) =>
            /\ result.returned
            /\ result.success = FALSE
            /\ result.status = "failed"
            /\ result.error_message = "CampaignLead " \o ToString(requested) \o " not found")
    /\ [][MissingLead' =>
            UNCHANGED <<cl, campaign, leadRow, logRows, msgRows, statsUpdates>>]_vars

C17_Witness == pc = "done" /\ MissingLead /\ statsUpdates = 0 /\ cl.status = "pending"

----------------------------------------------------------------------------
\* a nullable text column or state field holds some text
NonEmptyText(x) == x # "" /\ x # None

----------------------------------------------------------------------------
(* C19: every run of an existing campaign lead that returns without a        *)
(* database error leaves at least one persisted processing-log row for the   *)
(* lead, also when graph construction or execution raised.                   *)
C19_RunLeavesLogRow ==
    (Returned /\ ~faulted) =>
        \E i \in 1..Len(logRows) : logRows[i].campaign_lead_id = cl.id

----------------------------------------------------------------------------
\* the node sequence the static graph is to execute for the state at hand
StaticSequence(s) ==
    IF ~s.validation_passed THEN <<"validate", "finalize">>
    ELSE IF s.agent_type = "sms" THEN <<"validate", "sms_agent", "finalize">>
    ELSE IF s.agent_type = "voice" THEN <<"validate", "voice_agent", "finalize">>
    ELSE <<"validate", "sms_agent", "voice_agent", "finalize">>

(* C20: on the static graph the executed nodes are, at every moment, a       *)
(* prefix of [validate, finalize] when validation failed, and otherwise of   *)
(* [validate, sms_agent, finalize], [validate, voice_agent, finalize] or     *)
(* [validate, sms_agent, voice_agent, finalize] by agent_type; no node runs  *)
(* twice, nothing is scheduled after finalize, and a finished run has        *)
(* executed the whole sequence.                                              *)
C20_StaticNodeSequence ==
    (topology = "static" /\ executed # <<>>) =>
        /\ IsPrefix(executed, StaticSequence(st))
        /\ \A i, j \in 1..Len(executed) : executed[i] = executed[j] => i = j
        /\ executed[Len(executed)] = "finalize" => tasks = {}
        /\ Finished => executed = StaticSequence(st)

\* agent_type 'both': the SMS failed and the call was placed all the same
C20_Witness ==
    /\ Finished /\ topology = "static"
    /\ st.agent_type = "both" /\ ~st.sms_sent
    /\ executed = <<"validate", "sms_agent", "voice_agent", "finalize">>

----------------------------------------------------------------------------
\* the node sequences the A2A graph allows
A2ASequences ==
    {<<"validate", "finalize">>,
     <<"validate", "creative_agent", "handoff", "finalize">>,
     <<"validate", "creative_agent", "handoff", "deterministic_agent", "finalize">>}

(* C21: on the A2A graph the executed nodes are at every moment a prefix of  *)
(* validate, creative_agent, handoff, deterministic_agent, finalize with the *)
(* allowed skips to finalize, deterministic_agent runs only with a non-empty *)
(* message stored, and when the run returns finalize was the last node       *)
(* executed.                                                                 *)
C21_A2ANodeOrder ==
    (topology = "a2a" /\ executed # <<>>) =>
        /\ \E seq \in A2ASequences : IsPrefix(executed, seq)
        /\ "deterministic_agent" \in ExecutedNodes => st.sms_message # ""
        /\ (Returned /\ ~faulted) => executed[Len(executed)] = "finalize"

----------------------------------------------------------------------------
\* every label a router of the static or the A2A graph can return
RouterLabels ==
    {"finalize", "sms_only", "voice_only", "sms_first", "voice",
     "creative", "deterministic"}

\* the KeyError message of a label that the path map at hand lacks
RoutingErrors == {"'" \o l \o "'" : l \in RouterLabels}

(* C22: in every reachable state of a run on the static or the A2A graph,    *)
(* the label returned at the routing point after the node that just ran is   *)
(* a declared destination of that point, and no run fails because a label    *)
(* has no destination.                                                       *)
C22_RouterLabelsDeclared ==
    topology \in {"static", "a2a"} =>
        /\ exc \notin RoutingErrors
        /\ (pc = "invoke" /\ executed # <<>> /\ ran = {}) =>
              UnmappedLabels(graph, executed[Len(executed)], st) = {}

----------------------------------------------------------------------------
\* 1 for a violated condition, 0 otherwise
Violated(cond) == IF cond THEN 1 ELSE 0

(* C23: validate sets validation_passed iff name and phone are non-empty and *)
(* (the working-hours policy is off, or start <= hour < end and, when        *)
(* weekend sending is disallowed, the weekday is Monday to Friday); the      *)
(* error list has one distinct entry per violated condition and is empty iff *)
(* validation_passed.                                                        *)
C23_ValidateDecision ==
    call # <<>> /\ call.done =>
        LET lead == call.state.lead_data
            h == call.clock.hour
            inHours == WORKING_HOURS_START <= h /\ h < WORKING_HOURS_END
            weekdayOk == call.cfg.ALLOW_WEEKEND_SENDING \/ call.clock.weekday <= 4
            errs == call.out.validation_errors
        IN  /\ call.out.validation_passed <=>
                  (/\ lead.name # ""
                   /\ lead.phone # ""
                   /\ (~call.cfg.ENFORCE_WORKING_HOURS \/ (inHours /\ weekdayOk)))
            /\ Len(errs) = Violated(lead.name = "") + Violated(lead.phone = "")
                           + Violated(call.cfg.ENFORCE_WORKING_HOURS /\ ~inHours)
                           + Violated(call.cfg.ENFORCE_WORKING_HOURS /\ ~weekdayOk)
            /\ \A i, j \in 1..Len(errs) : errs[i] = errs[j] => i = j
            /\ call.out.validation_passed <=> errs = <<>>

\* nothing is right: four conditions violated, four errors
C23_Witness ==
    /\ call # <<>> /\ call.done
    /\ ~call.out.validation_passed
    /\ Len(call.out.validation_errors) = 4
    /\ call.clock.hour = WORKING_HOURS_END

----------------------------------------------------------------------------
\* the four classifying keywords and the node each stands for
KeywordNodes ==
    {<<kwValidate, "validate">>, <<kwSms, "sms_agent">>,
     <<kwVoice, "voice_agent">>, <<kwEnrich, "enrichment">>}

\* the keywords the lowercased label contains
KeywordsIn(label) == {k \in KeywordNodes : Contains(k[1], Lower(label))}

(* C24: a node that is neither input-typed nor output-typed and whose        *)
(* lowercased label contains exactly one of 'validate', 'sms', 'voice',      *)
(* 'enrich' is mapped to that keyword's node, whatever else the label says.  *)
C24_KeywordDecidesNode ==
    (/\ call # <<>> /\ call.done
     /\ call.node.type \notin {"input", "output"}
     /\ Cardinality(KeywordsIn(call.node.label)) = 1)
    => \A k \in KeywordsIn(call.node.label) : call.out = k[2]

----------------------------------------------------------------------------
(* C25: for every workflow description, dynamic graph construction completes *)
(* without error and yields a graph whose entry point is one of its nodes    *)
(* and which has a finalize node with an edge to termination.                *)
C25_DynamicConstructionSucceeds ==
    topology = "dynamic" =>
        /\ graph.error = ""
        /\ EntryTasks(graph) # {}
        /\ EntryTasks(graph) \subseteq graph.nodes
        /\ "finalize" \in graph.nodes
        /\ <<"finalize", END>> \in graph.edges

----------------------------------------------------------------------------
\* the node that ran last
LastExecuted == executed[Len(executed)]

\* node n is where the dynamic graph's routing after validate leads in state s
AfterValidate(n, s) ==
    \E b \in graph.branches :
        /\ b.source = "validate"
        /\ n = (IF s.validation_passed THEN b.target ELSE "finalize")

(* C26: in a dynamically built graph the node executed after validate is     *)
(* finalize when validation failed and the configured edge target otherwise, *)
(* whatever agent_type is, and a finished run did execute that node; for     *)
(* Start -> Validate Lead -> Voice Call -> End a valid lead executes         *)
(* validate, voice_agent, finalize and ends 'completed' when agent_type is   *)
(* 'voice'.                                                                  *)
C26_DynamicRoutingAfterValidate ==
    (topology = "dynamic" /\ executed # <<>>) =>
        /\ \A i \in 1..(Len(executed) - 1) :
              (/\ executed[i] = "validate"
               /\ \A j \in (i + 1)..Len(executed) : executed[j] # "validate")
              => AfterValidate(executed[i + 1], st)
        /\ Finished => LastExecuted # "validate"
        /\ (Finished /\ campaign.workflow_config = 3 /\ st.validation_passed)
           => /\ executed = <<"validate", "voice_agent", "finalize">>
              /\ (st.agent_type = "voice" => st.status = "completed")

----------------------------------------------------------------------------
\* the log entries a node writes right after send_sms returned
SendEntries(logs, node) ==
    {i \in 1..Len(logs) : logs[i].node = node /\ logs[i].message \in {"SMS sent", "SMS failed"}}

(* C27: on every topology the delivery capability is called only with a      *)
(* non-empty message: every log entry written after a send by sms_agent      *)
(* carries a non-empty message text, and the A2A deterministic agent has      *)
(* sent only when the state holds a non-empty sms_message.                    *)
C27_NoEmptySend ==
    /\ \A i \in SendEntries(st.processing_logs, "sms_agent") :
          st.processing_logs[i].data.sms_message # ""
    /\ SendEntries(st.processing_logs, "a2a_deterministic_agent") # {}
          => st.sms_message # ""

----------------------------------------------------------------------------
(* C28: after validate has executed, validation_errors keeps the value       *)
(* validate produced for the rest of the run: the nodes that add no          *)
(* validation error leave the merged list as it was, nothing added or        *)
(* repeated.                                                                 *)
C28_ValidationErrorsStable ==
    (pc # "except" /\ HasValidateEntry(st.processing_logs)) =>
        st.validation_errors =
            LastValidateEntry(st.processing_logs, Len(st.processing_logs)).data.errors

----------------------------------------------------------------------------
----------------------------------------------------------------------------
\* 1 if the campaign's lead has the given persisted status, else 0
LeadsIn(status) == IF cl.status = status THEN 1 ELSE 0

----------------------------------------------------------------------------
(* Read-only configuration of a run *)

\* the keys of CampaignLeadState no node and no router is meant to assign
\* (state.py declares tools for the deterministic agent only)
ConfigFields ==
    {"campaign_lead_id", "campaign_id", "lead_id", "agent_type", "use_a2a",
     "creative_agent_id", "creative_agent_prompt", "creative_agent_model",
     "deterministic_agent_id", "deterministic_agent_prompt",
     "deterministic_agent_model",
     "deterministic_agent_tools", "sms_system_prompt", "sms_temperature",
     "trace_id"}

\* the state restricted to those keys
ConfigOf(s) == [k \in ConfigFields |-> s[k]]

\* the state initialize_lead_state built for this run
InitialState == initialize_lead_state(NewCampaignLead(leadRow), campaign, leadRow)

\* C31: in every reachable state of a run the identifiers, agent_type,
\* use_a2a, the agents' ids, prompts, models and tools, sms_system_prompt,
\* sms_temperature and trace_id of the graph state equal their initial values
C31_ConfigReadOnly == ConfigOf(st) = ConfigOf(InitialState)

\* a run whose nodes all executed and whose state was merged after each
C31_Witness ==
    /\ Finished
    /\ Len(executed) >= 4
    /\ st.processing_logs # <<>>
    /\ ConfigOf(st) = ConfigOf(InitialState)

----------------------------------------------------------------------------
(* lead_data and enrichment *)

\* the keys the mocked lookup produces
EnrichedKeys == {"industry", "size", "location"}

\* every key of `before` outside EnrichedKeys is in `after` with its value
KeepsKeys(before, after) ==
    \A k \in DOMAIN before \ EnrichedKeys :
        k \in DOMAIN after /\ after[k] = before[k]

\* this step is one invocation of the enrich node
EnrichStep == executed' = Append(executed, "enrichment")

\* C32: only the enrich node changes lead_data; enrich keeps every key it
\* found with its value, except industry, size and location which it
\* produces; for a lead without company enrich leaves lead_data unchanged
C32_EnrichIsNonDestructiveMerge ==
    [][ /\ st'.lead_data # st.lead_data => EnrichStep
        /\ EnrichStep =>
            /\ KeepsKeys(st.lead_data, st'.lead_data)
            /\ DOMAIN st'.lead_data \subseteq DOMAIN st.lead_data \cup EnrichedKeys
            /\ st.lead_data.company = "" => st'.lead_data = st.lead_data ]_vars

\* enrich ran for a lead with a company: lead_data gained the three keys and
\* kept name, phone, email, company and notes
C32_Witness ==
    /\ "enrichment" \in ExecutedNodes
    /\ st.lead_data # InitialState.lead_data
    /\ EnrichedKeys \subseteq DOMAIN st.lead_data
    /\ KeepsKeys(InitialState.lead_data, st.lead_data)

----------------------------------------------------------------------------
(* The A2A handoff node *)

\* the keys of CampaignLeadState declared with the operator.add reducer
ReducerKeys == {"validation_errors", "processing_logs", "conversation_history"}

\* this step is one invocation of the handoff node
HandoffStep == executed' = Append(executed, "handoff")

\* the entry handoff writes for the state it received
HandoffEntry(s) ==
    LogEntry("a2a_handoff", "Agent handoff coordination",
             [creative_complete |-> s.sms_message # "",
              deterministic_complete |-> s.sms_sent])

----------------------------------------------------------------------------
(* Campaign status under sweeps, pause and resume *)

\* C34: once a pause is committed the campaign stays 'paused' until a resume
\* request: no step of a sweep job overwrites the status in between
C34_PausedUntilResume == pauseActive => campStatus = "paused"

\* C35: while the campaign status is 'completed' (set by a sweep) no lead of
\* the campaign has persisted status 'pending' or 'processing'
C35_CompletedMeansAllLeadsDone ==
    campStatus = "completed" =>
        \A l \in SweepLeadIds : leadStatus[l] \notin {"pending", "processing"}

----------------------------------------------------------------------------
(* Final status and error message across topologies *)

\* C36: a finished run on the A2A graph in which validation passed, the
\* creative agent stored a message and the delivery succeeded has status
\* 'completed', whatever the campaign's agent_type
C36_A2ASuccessCompletes ==
    (/\ Finished
     /\ topology = "a2a"
     /\ LastExecuted = "finalize"
     /\ st.validation_passed
     /\ st.sms_message # ""
     /\ st.sms_sent)
    => st.status = "completed"

\* C37: a finished run whose final status is 'failed' has a non-empty final
\* error_message (every failing capability of the model reports a non-empty
\* error string), on every topology and for every agent_type
C37_FailedHasErrorMessage ==
    (Finished /\ st.status = "failed") => st.error_message # ""

\* the capabilities this run invoked all succeeded: no error was recorded
InvokedSucceeded ==
    /\ st.sms_error = ""
    /\ st.voice_error = ""
    /\ calls.generate + calls.send + calls.place_call > 0

----------------------------------------------------------------------------
(* Termination of runs on dynamic graphs *)

\* how many times node n was invoked in this run
Invocations(n) == Cardinality({i \in 1..Len(executed) : executed[i] = n})

\* C39: when a run on a dynamically built graph has returned, the last node
\* it executed is finalize and finalize was executed exactly once
C39_DynamicRunEndsWithFinalize ==
    (/\ pc = "done" /\ requested = cl.id /\ ~faulted
     /\ topology = "dynamic" /\ graph.error = "")
    => /\ executed # <<>>
       /\ LastExecuted = "finalize"
       /\ Invocations("finalize") = 1

====
